---- MODULE Spec2Model ----
(***************************************************************************)
(* A model of UnwantedRecordsFBRefScraper.py: a one-shot script that       *)
(* scrapes six statistics tables with a headless browser, converts their   *)
(* columns to numeric, evaluates five "unwanted record" queries and prints *)
(* a report.                                                               *)
(*                                                                         *)
(* Text is a sequence of one-character strings.  A cell value is a record  *)
(* tagged by t: "none" (Python None), "str" (text), "num" (the number      *)
(* n / 10^e) or "nan" (the float NaN that pandas gives an empty text).     *)
(***************************************************************************)
EXTENDS Integers, Sequences, FiniteSets, TLC

VARIABLES pc, driver, pageIdx, dataframes, err, GW, records, qi, stdout, log, arg, ret

vars == <<pc, driver, pageIdx, dataframes, err, GW, records, qi, stdout, log, arg, ret>>

\* ------------------------------------------------------------------ values

None == [t |-> "none"]

Str(s) == [t |-> "str", s |-> s]

Num(n, e) == [t |-> "num", n |-> n, e |-> e]

NoValue == [t |-> "unset"]

\* ------------------------------------------------------------------ text

IsSpace(c) == c = " "

RECURSIVE LStrip(_)
LStrip(s) == IF s = <<>> THEN s
             ELSE IF IsSpace(Head(s)) THEN LStrip(Tail(s)) ELSE s

RECURSIVE RStrip(_)
RStrip(s) == IF s = <<>> THEN s
             ELSE IF IsSpace(s[Len(s)]) THEN RStrip(SubSeq(s, 1, Len(s) - 1)) ELSE s

\* str.strip(): leading and trailing whitespace removed
Strip(s) == RStrip(LStrip(s))

\* the first whitespace-free word of s (s starts with a non-space)
RECURSIVE FirstWord(_)
FirstWord(s) == IF s = <<>> \/ IsSpace(Head(s)) THEN <<>>
                ELSE <<Head(s)>> \o FirstWord(Tail(s))

\* str.split(): the maximal whitespace-free words of s, in order
RECURSIVE Split(_)
Split(s) == LET r == LStrip(s)
            IN  IF r = <<>> THEN <<>>
                ELSE LET w == FirstWord(r)
                     IN  <<w>> \o Split(SubSeq(r, Len(w) + 1, Len(r)))

\* ------------------------------------------------------------------ scrape_table

\* soup.find("table", {"id": table_id}): the table element, or None
FindTable(html, table_id) ==
    IF table_id \in DOMAIN html.tables THEN html.tables[table_id] ELSE None

\* table.thead.find_all("th", {"scope": "col"})
HeaderCells(table) == SelectSeq(table.thead, LAMBDA th : th.scope = "col")

\* headers[1:] of a Python list: empty when the list is empty
Slice1(l) == IF l = <<>> THEN <<>> ELSE Tail(l)

\* [header["data-stat"] for header in header_cells][1:]
Headers(table) ==
    LET hc == HeaderCells(table)
    IN  Slice1([k \in 1..Len(hc) |-> hc[k].stat])

\* row.find("td", {"data-stat": header}) and the if/else on it: the trimmed
\* text of the cell, or None when the row has no such td
CellValue(row, header) ==
    IF header \in DOMAIN row THEN Str(Strip(row[header])) ELSE None

\* the inner loop: one row's row_data
RowData(row, headers) == [k \in 1..Len(headers) |-> CellValue(row, headers[k])]

\* a faulty variant: the dropna() step left out
DropNa_KeepAll(data) == data

\* df.dropna(): the rows holding no missing value, in order
DropNa(data) == SelectSeq(data, LAMBDA r : \A k \in 1..Len(r) : r[k] # None)

\* pd.DataFrame(data, columns=headers): every column starts as dtype object
DataFrame(data, columns) ==
    [columns |-> columns,
     dtypes  |-> [k \in 1..Len(columns) |-> "object"],
     data    |-> data]

\* a faulty variant: a missing table answered with an empty DataFrame instead of an error
scrape_table_EmptyIfMissing(html, table_id) ==
    LET table == FindTable(html, table_id)
    IN  IF table = None
        THEN [ok |-> TRUE, df |-> DataFrame(<<>>, <<>>)]
        ELSE LET headers == Headers(table)
                 rows    == table.tbody
                 data    == [k \in 1..Len(rows) |-> RowData(rows[k], headers)]
                 df      == DataFrame(data, headers)
             IN  [ok |-> TRUE, df |-> [df EXCEPT !.data = DropNa(df.data)]]

\* scrape_table after driver.get(url): html is driver.page_source
scrape_table(html, table_id) ==
    LET table == FindTable(html, table_id)
    IN  IF table = None
        THEN [ok |-> FALSE, exc |-> "AttributeError"]
        ELSE LET headers == Headers(table)
                 rows    == table.tbody
                 data    == [k \in 1..Len(rows) |-> RowData(rows[k], headers)]
                 df      == DataFrame(data, headers)
             IN  [ok |-> TRUE, df |-> [df EXCEPT !.data = DropNa(df.data)]]

\* ------------------------------------------------------------------ convert_columns_to_numeric

NaN == [t |-> "nan"]

Digits == {"0", "1", "2", "3", "5", "7"}

DigitVal(c) ==
    CASE c = "0" -> 0 [] c = "1" -> 1 [] c = "2" -> 2
      [] c = "3" -> 3 [] c = "5" -> 5 [] c = "7" -> 7

IsDigits(s) == \A k \in 1..Len(s) : s[k] \in Digits

\* the value of a digit string read in base ten (0 for the empty string)
RECURSIVE DigitsVal(_)
DigitsVal(s) == IF s = <<>> THEN 0
                ELSE 10 * DigitsVal(SubSeq(s, 1, Len(s) - 1)) + DigitVal(s[Len(s)])

\* n / 10^e with the trailing zero decimals removed, so that equal numbers
\* are equal records (7.0 == 7)
RECURSIVE Canon(_, _)
Canon(n, e) == IF e > 0 /\ n % 10 = 0 THEN Canon(n \div 10, e - 1) ELSE Num(n, e)

DotAt(s) == { k \in 1..Len(s) : s[k] = "." }

\* what pd.to_numeric makes of one text: an integer literal, a decimal
\* literal, the empty text (read as NaN), or a failure
ParseNumeric(s) ==
    IF s = <<>> THEN [ok |-> TRUE, kind |-> "float", v |-> NaN]
    ELSE IF IsDigits(s) THEN [ok |-> TRUE, kind |-> "int", v |-> Num(DigitsVal(s), 0)]
    ELSE IF Cardinality(DotAt(s)) = 1
         THEN LET d    == CHOOSE k \in DotAt(s) : TRUE
                  ip   == SubSeq(s, 1, d - 1)
                  fp   == SubSeq(s, d + 1, Len(s))
              IN  IF IsDigits(ip) /\ IsDigits(fp) /\ Len(ip) + Len(fp) > 0
                  THEN [ok |-> TRUE, kind |-> "float",
                        v |-> Canon(DigitsVal(ip \o fp), Len(fp))]
                  ELSE [ok |-> FALSE]
         ELSE [ok |-> FALSE]

\* column k of df, as a sequence of values
Column(df, k) == [r \in 1..Len(df.data) |-> df.data[r][k]]

\* a faulty variant: value-by-value conversion (each text that parses is converted, the
\* others are left in place)
to_numeric_Partial(dtype, values) ==
    IF dtype # "object" THEN [dtype |-> dtype, values |-> values]
    ELSE LET p == [r \in 1..Len(values) |->
                      IF values[r].t = "str" THEN ParseNumeric(values[r].s)
                      ELSE [ok |-> FALSE]] \o <<>>
         IN  [dtype  |-> IF \E r \in 1..Len(values) : ~p[r].ok THEN "object"
                         ELSE IF \A r \in 1..Len(values) : p[r].kind = "int"
                              THEN "int64" ELSE "float64",
              values |-> [r \in 1..Len(values) |->
                            IF p[r].ok THEN p[r].v ELSE values[r]]]

\* a faulty variant: a column that is already numeric is cast to float64
to_numeric_Recast(dtype, values) ==
    IF dtype # "object" THEN [dtype |-> "float64", values |-> values]
    ELSE LET p == [r \in 1..Len(values) |->
                      IF values[r].t = "str" THEN ParseNumeric(values[r].s)
                      ELSE [ok |-> FALSE]] \o <<>>
         IN  IF \E r \in 1..Len(values) : ~p[r].ok
             THEN [dtype |-> dtype, values |-> values]
             ELSE [dtype  |-> IF \A r \in 1..Len(values) : p[r].kind = "int"
                              THEN "int64" ELSE "float64",
                   values |-> [r \in 1..Len(values) |-> p[r].v]]

\* pd.to_numeric(col, errors='ignore') on one column: [dtype, values].
\* A numeric column comes back as it is; an object column is converted as a
\* whole when every value converts, and comes back untouched otherwise.
to_numeric(dtype, values) ==
    IF dtype # "object" THEN [dtype |-> dtype, values |-> values]
    ELSE LET p == [r \in 1..Len(values) |->
                      IF values[r].t = "str" THEN ParseNumeric(values[r].s)
                      ELSE [ok |-> FALSE]] \o <<>>
         IN  IF \E r \in 1..Len(values) : ~p[r].ok
             THEN [dtype |-> dtype, values |-> values]
             ELSE [dtype  |-> IF \A r \in 1..Len(values) : p[r].kind = "int"
                              THEN "int64" ELSE "float64",
                   values |-> [r \in 1..Len(values) |-> p[r].v]]

\* for col in df.columns: df[col] = pd.to_numeric(df[col], errors='ignore')
\* (\o <<>> leaves a sequence as it is: each column is converted once)
convert_columns_to_numeric(df) ==
    LET conv == [k \in 1..Len(df.columns) |->
                    to_numeric(df.dtypes[k], Column(df, k))] \o <<>>
    IN  [columns |-> df.columns,
         dtypes  |-> [k \in 1..Len(df.columns) |-> conv[k].dtype],
         data    |-> [r \in 1..Len(df.data) |->
                        [k \in 1..Len(df.columns) |-> conv[k].values[r]]]]

\* ------------------------------------------------------------------ extract_surname

\* a faulty variant: the first word instead of the last ([0] for [-1])
extract_surname_First(full_name) ==
    IF full_name.t # "str" THEN [ok |-> FALSE, exc |-> "AttributeError"]
    ELSE LET words == Split(full_name.s)
         IN  IF words = <<>> THEN [ok |-> FALSE, exc |-> "IndexError"]
             ELSE [ok |-> TRUE, v |-> words[1]]

\* full_name.split()[-1], applied by Series.apply to one value of the player
\* column: a number has no split (AttributeError), a blank name has no last
\* word (IndexError)
extract_surname(full_name) ==
    IF full_name.t # "str" THEN [ok |-> FALSE, exc |-> "AttributeError"]
    ELSE LET words == Split(full_name.s)
         IN  IF words = <<>> THEN [ok |-> FALSE, exc |-> "IndexError"]
             ELSE [ok |-> TRUE, v |-> words[Len(words)]]

\* ------------------------------------------------------------------ record queries

HasColumn(df, name) == \E k \in 1..Len(df.columns) : df.columns[k] = name

\* the position of column name in df
ColIdx(df, name) == CHOOSE k \in 1..Len(df.columns) : df.columns[k] = name

RECURSIVE Pow10(_)
Pow10(e) == IF e = 0 THEN 1 ELSE 10 * Pow10(e - 1)

\* a < b for two numbers n / 10^e
NumLess(a, b) == a.n * Pow10(b.e) < b.n * Pow10(a.e)

\* the row labels (positions in df) of the rows whose pred column equals 0:
\* df[pred] == 0 is False for every text value
ZeroRows(df, pred) ==
    { r \in 1..Len(df.data) : df.data[r][ColIdx(df, pred)] = Num(0, 0) }

\* the elements of the set of row labels S in increasing order
RECURSIVE Ordered(_)
Ordered(S) == IF S = {} THEN <<>>
              ELSE LET m == CHOOSE x \in S : \A y \in S : x <= y
                   IN  <<m>> \o Ordered(S \ {m})

\* a faulty variant: an empty filtered set answered with the default 0
Highest_DefaultOnEmpty(df, pred, rank) ==
    IF ~HasColumn(df, pred) \/ ~HasColumn(df, rank)
    THEN [ok |-> FALSE, exc |-> "KeyError"]
    ELSE IF df.dtypes[ColIdx(df, rank)] = "object"
    THEN [ok |-> FALSE, exc |-> "TypeError"]
    ELSE IF ZeroRows(df, pred) = {}
    THEN [ok |-> TRUE, v |-> Num(0, 0)]
    ELSE LET c == ColIdx(df, rank)
             F == ZeroRows(df, pred)
             m == CHOOSE r \in F : \A q \in F : ~NumLess(df.data[r][c], df.data[q][c])
         IN  [ok |-> TRUE, v |-> df.data[m][c]]

\* df[df[pred] == 0].nlargest(1, rank)[rank].values[0]
Highest(df, pred, rank) ==
    IF ~HasColumn(df, pred) \/ ~HasColumn(df, rank)
    THEN [ok |-> FALSE, exc |-> "KeyError"]
    ELSE IF df.dtypes[ColIdx(df, rank)] = "object"
    THEN [ok |-> FALSE, exc |-> "TypeError"]
    ELSE IF ZeroRows(df, pred) = {}
    THEN [ok |-> FALSE, exc |-> "IndexError"]
    ELSE LET c == ColIdx(df, rank)
             F == ZeroRows(df, pred)
             m == CHOOSE r \in F : \A q \in F : ~NumLess(df.data[r][c], df.data[q][c])
         IN  [ok |-> TRUE, v |-> df.data[m][c]]

\* a faulty variant: the mask without its predicate half
Selected_NoPredicate(df, pred, rank, highest) ==
    { r \in 1..Len(df.data) : df.data[r][ColIdx(df, rank)] = highest }

\* the mask (df[pred] == 0) & (df[rank] == highest), as row labels
Selected(df, pred, rank, highest) ==
    { r \in ZeroRows(df, pred) : df.data[r][ColIdx(df, rank)] = highest }

\* Series.apply(extract_surname) over the player values of the rows rs (row
\* labels in table order): a Series of (label, surname), or the first
\* exception raised
Surnames(df, rs) ==
    LET c   == ColIdx(df, "player")
        res == [k \in 1..Len(rs) |-> extract_surname(df.data[rs[k]][c])]
        bad == { k \in 1..Len(rs) : ~res[k].ok }
    IN  IF bad # {}
        THEN [ok |-> FALSE, exc |-> res[CHOOSE k \in bad : \A j \in bad : k <= j].exc]
        ELSE [ok |-> TRUE,
              v  |-> [k \in 1..Len(rs) |-> [label |-> rs[k], name |-> res[k].v]]]

\* one record: the two statements of a query (lines 171-172 and the four
\* like them)
RecordQuery(df, pred, rank) ==
    LET h == Highest(df, pred, rank)
    IN  IF ~h.ok THEN h
        ELSE IF ~HasColumn(df, "player") THEN [ok |-> FALSE, exc |-> "KeyError"]
        ELSE LET s == Surnames(df, Ordered(Selected(df, pred, rank, h.v)))
             IN  IF ~s.ok THEN s
                 ELSE [ok |-> TRUE, value |-> h.v, players |-> s.v]

\* ------------------------------------------------------------------ inputs

\* data-stat identifiers of the bounded extraction inputs
StatIds == {"ranker", "player", "goals"}

\* raw cell texts of the bounded extraction inputs: blank, and padded text
RawTexts == { <<" ">>, <<" ", "7">> }

MaxBodyRows == 2

Th(stat) == [scope |-> "col", stat |-> stat]

OverTh(stat) == [scope |-> "", stat |-> stat]

\* header rows: none, rank only, the usual order, with an over-header cell
\* (no scope="col"), columns reordered, no rank column
TheadChoices ==
    { <<>>,
      <<Th("ranker")>>,
      <<Th("ranker"), Th("player"), Th("goals")>>,
      <<OverTh("header_performance"), Th("ranker"), Th("player"), Th("goals")>>,
      <<Th("ranker"), Th("goals"), Th("player")>>,
      <<Th("player"), Th("goals")>> }

\* a body row: the td cells it holds, by data-stat
BodyRows == UNION { [S -> RawTexts] : S \in SUBSET StatIds }

SeqsUpTo(S, n) == UNION { [1..k -> S] : k \in 0..n }

ScrapeTableId == "stats_standard"

ScrapeInputs ==
    { [tables |-> (ScrapeTableId :> [thead |-> h, tbody |-> b])] :
        h \in TheadChoices, b \in SeqsUpTo(BodyRows, MaxBodyRows) }
    \cup { [tables |-> ("other" :> [thead |-> <<>>, tbody |-> <<>>])] }

\* ------------------------------------------------------------------ SpecScrape

Idle ==
    /\ driver = "open" /\ pageIdx = 1 /\ dataframes = <<>> /\ err = "none"
    /\ GW = NoValue /\ records = <<>> /\ qi = 1 /\ stdout = <<>> /\ log = <<>>

InitScrape ==
    /\ Idle
    /\ pc = "call"
    /\ arg \in ScrapeInputs
    /\ ret = NoValue

ScrapeCall ==
    /\ pc = "call"
    /\ ret' = scrape_table(arg, ScrapeTableId)
    /\ pc' = "returned"
    /\ UNCHANGED <<driver, pageIdx, dataframes, err, GW, records, qi, stdout, log, arg>>

NextScrape == ScrapeCall

SpecScrape == InitScrape /\ [][NextScrape]_vars

\* ------------------------------------------------------------------ SpecNorm

\* stripped cell texts of the bounded normalisation inputs:
\* "", "7", "12", "1.5", "7.0", "n/a"
CellTexts ==
    { <<>>, <<"7">>, <<"1", "2">>, <<"1", ".", "5">>, <<"7", ".", "0">>,
      <<"n", "/", "a">> }

NormColumns == <<"goals", "shots">>

MaxNormRows == 2

NormInputs ==
    { DataFrame(d, NormColumns) :
        d \in SeqsUpTo({ <<Str(a), Str(b)>> : a \in CellTexts, b \in CellTexts },
                       MaxNormRows) }

InitNorm ==
    /\ Idle
    /\ pc = "call"
    /\ arg \in NormInputs
    /\ ret = NoValue

\* df = convert_columns_to_numeric(df)
NormCall ==
    /\ pc = "call"
    /\ ret' = convert_columns_to_numeric(arg)
    /\ pc' = "once"
    /\ UNCHANGED <<driver, pageIdx, dataframes, err, GW, records, qi, stdout, log, arg>>

\* the same function applied to its own result
NormAgain ==
    /\ pc = "once"
    /\ arg' = ret
    /\ ret' = convert_columns_to_numeric(ret)
    /\ pc' = "twice"
    /\ UNCHANGED <<driver, pageIdx, dataframes, err, GW, records, qi, stdout, log>>

NextNorm == NormCall \/ NormAgain

SpecNorm == InitNorm /\ [][NextNorm]_vars

\* ------------------------------------------------------------------ SpecRecord

\* player names of the bounded record inputs: "B S", "T S" (two players, one
\* surname), "N" (a single word), "" (blank)
PlayerNames == { <<"B", " ", "S">>, <<"T", " ", "S">>, <<"N">>, <<>> }

\* cell texts of the predicate column: "0", "1"
PredTexts == { <<"0">>, <<"1">> }

\* cell texts of the rank column: "0.7", "3", "n/a".  The statistic cells of
\* the queried columns are never empty (what nlargest does with a column of
\* NaN depends on the pandas release).
RankTexts == { <<"0", ".", "7">>, <<"3">>, <<"n", "/", "a">> }

RecordColumns == <<"player", "goals", "shots">>

MaxRecRows == 3

\* the tables a query can meet: extracted text, then converted
\* the rows of a table as extracted: text in every cell
RecordRows ==
    { <<Str(n), Str(p), Str(r)>> : n \in PlayerNames, p \in PredTexts, r \in RankTexts }

InitRecord ==
    /\ Idle
    /\ pc = "call"
    /\ \E d \in SeqsUpTo(RecordRows, MaxRecRows) :
          arg = convert_columns_to_numeric(DataFrame(d, RecordColumns))
    /\ ret = NoValue

RecordCall ==
    /\ pc = "call"
    /\ ret' = RecordQuery(arg, "goals", "shots")
    /\ pc' = "returned"
    /\ UNCHANGED <<driver, pageIdx, dataframes, err, GW, records, qi, stdout, log, arg>>

NextRecord == RecordCall

SpecRecord == InitRecord /\ [][NextRecord]_vars

\* ------------------------------------------------------------------ the script

\* the URLs and table IDs to scrape
pages ==
    << [url |-> "https://fbref.com/en/comps/9/stats/Premier-League-Stats",
        table_id |-> "stats_standard", csv_name |-> "standard_stats.csv"],
       [url |-> "https://fbref.com/en/comps/9/shooting/Premier-League-Stats",
        table_id |-> "stats_shooting", csv_name |-> "shooting_stats.csv"],
       [url |-> "https://fbref.com/en/comps/9/passing/Premier-League-Stats",
        table_id |-> "stats_passing", csv_name |-> "passing_stats.csv"],
       [url |-> "https://fbref.com/en/comps/9/defense/Premier-League-Stats",
        table_id |-> "stats_defense", csv_name |-> "defensive_actions_stats.csv"],
       [url |-> "https://fbref.com/en/comps/9/playingtime/Premier-League-Stats",
        table_id |-> "stats_playing_time", csv_name |-> "playing_time_stats.csv"],
       [url |-> "https://fbref.com/en/comps/9/misc/Premier-League-Stats",
        table_id |-> "stats_misc", csv_name |-> "miscellaneous_stats.csv"] >>

\* the five records, in the order they are computed: the table, the column
\* that must be 0 and the column that is ranked
Queries ==
    << [table |-> "stats_shooting", pred |-> "goals",   rank |-> "shots"],
       [table |-> "stats_standard", pred |-> "goals",   rank |-> "xg"],
       [table |-> "stats_standard", pred |-> "assists", rank |-> "xg_assist"],
       [table |-> "stats_passing",  pred |-> "assists", rank |-> "assisted_shots"],
       [table |-> "stats_passing",  pred |-> "assists",
        rank |-> "passes_into_penalty_area"] >>

\* the order in which the report prints the records (positions in Queries)
ReportOrder == <<1, 2, 4, 3, 5>>

\* GW = max(standard_stats['games']), on a numeric games column
CurrentGW(df) ==
    IF ~HasColumn(df, "games") THEN [ok |-> FALSE, exc |-> "KeyError"]
    ELSE IF df.data = <<>> THEN [ok |-> FALSE, exc |-> "ValueError"]
    ELSE LET c == ColIdx(df, "games")
             m == CHOOSE r \in 1..Len(df.data) :
                      \A q \in 1..Len(df.data) : ~NumLess(df.data[r][c], df.data[q][c])
         IN  [ok |-> TRUE, v |-> df.data[m][c]]

\* ---- what the site can serve

Ths(stats) == [k \in 1..Len(stats) |-> Th(stats[k])]

Txt(a, b) == <<a, " ", b>>

\* a repeated header row inside tbody: th cells only, no td
SpacerRow == <<>>

StandardRow(name, games, goals, assists, xg, xag) ==
    [player |-> name, games |-> <<games>>, goals |-> <<goals>>,
     assists |-> <<assists>>, xg |-> xg, xg_assist |-> xag]

StandardThead ==
    Ths(<<"ranker", "player", "games", "goals", "assists", "xg", "xg_assist">>)

\* two players with one surname and equal xG; goals and assists vary
StandardTables ==
    { [thead |-> StandardThead,
       tbody |-> << StandardRow(Txt("B", "S"), "3", g[1], a[1], <<"0", ".", "7">>, <<"1", ".", "2">>),
                    SpacerRow,
                    StandardRow(Txt("T", "S"), "2", g[2], a[2], <<"0", ".", "7">>, <<"0", ".", "5">>) >>] :
        g \in { <<"0", "0">>, <<"0", "1">>, <<"1", "1">> },
        a \in { <<"0", "0">>, <<"1", "1">> } }
    \cup { [thead |-> StandardThead, tbody |-> <<SpacerRow>>],
           [thead |-> Ths(<<"ranker", "player", "goals">>),
            tbody |-> << [player |-> <<"N">>, goals |-> <<"0">>] >>] }

ShootingRow(name, goals, shots) ==
    [player |-> name, goals |-> <<goals>>, shots |-> shots]

ShootingThead == Ths(<<"ranker", "player", "goals", "shots">>)

\* two goalless-or-not players tied on shots, a scorer with more shots
ShootingTables ==
    { [thead |-> ShootingThead,
       tbody |-> << ShootingRow(Txt("B", "S"), g[1], <<"7">>),
                    ShootingRow(<<"N">>, g[2], <<"7">>),
                    ShootingRow(Txt("T", "S"), "1", <<"1", "2">>) >>] :
        g \in { <<"0", "0">>, <<"0", "1">>, <<"1", "1">> } }
    \cup { [thead |-> ShootingThead,
            tbody |-> << ShootingRow(<<"N">>, "0", <<"n", "/", "a">>) >>] }

PassingRow(name, assists, kp, ppa) ==
    [player |-> name, assists |-> <<assists>>, assisted_shots |-> <<kp>>,
     passes_into_penalty_area |-> <<ppa>>]

PassingThead ==
    Ths(<<"ranker", "player", "assists", "assisted_shots", "passes_into_penalty_area">>)

PassingTables ==
    { [thead |-> PassingThead,
       tbody |-> << PassingRow(Txt("B", "S"), a[1], "5", "2"),
                    PassingRow(<<"N">>, a[2], "3", "2") >>] :
        a \in { <<"0", "0">>, <<"1", "0">>, <<"1", "1">> } }

OtherTables ==
    { [thead |-> Ths(<<"ranker", "player", "minutes">>),
       tbody |-> << [player |-> <<"N">>, minutes |-> <<"1", ",", "2">>] >>] }

TablesFor(table_id) ==
    CASE table_id = "stats_standard" -> StandardTables
      [] table_id = "stats_shooting" -> ShootingTables
      [] table_id = "stats_passing"  -> PassingTables
      [] OTHER                       -> OtherTables

\* the page sources driver.get(url) can leave in driver.page_source: the
\* page with its table, or a page on which that table is missing
PageSources(page) ==
    { [tables |-> (page.table_id :> t)] : t \in TablesFor(page.table_id) }
    \cup { [tables |-> ("other" :> [thead |-> <<>>, tbody |-> <<>>])] }

\* ---- the run

Init ==
    /\ pc = "loop"
    /\ driver = "open"
    /\ pageIdx = 1
    /\ dataframes = <<>>
    /\ err = "none"
    /\ GW = NoValue
    /\ records = <<>>
    /\ qi = 1
    /\ stdout = <<>>
    /\ log = <<>>
    /\ arg = NoValue
    /\ ret = NoValue

Progress(page) == [kind |-> "progress", url |-> page.url]

GetEvent(found) == [op |-> "get", page |-> pageIdx, session |-> driver, found |-> found]

\* an unhandled exception ends the process: nothing after it runs
Raise(exc) ==
    /\ err' = exc
    /\ pc' = "failed"

\* one iteration of the scrape loop in which driver.get(url) raises
ScrapeFetchFails ==
    /\ pc = "loop"
    /\ stdout' = Append(stdout, Progress(pages[pageIdx]))
    /\ log' = Append(log, [op |-> "get_failed", page |-> pageIdx, session |-> driver])
    /\ Raise("WebDriverException")
    /\ UNCHANGED <<driver, pageIdx, dataframes, GW, records, qi, arg, ret>>

\* one iteration of the scrape loop in which scrape_table raises
ScrapeTableFails ==
    /\ pc = "loop"
    /\ \E src \in PageSources(pages[pageIdx]) :
          LET r == scrape_table(src, pages[pageIdx].table_id)
          IN  /\ ~r.ok
              /\ log' = Append(log, GetEvent(FindTable(src, pages[pageIdx].table_id) # None))
              /\ Raise(r.exc)
    /\ stdout' = Append(stdout, Progress(pages[pageIdx]))
    /\ UNCHANGED <<driver, pageIdx, dataframes, GW, records, qi, arg, ret>>

\* a faulty variant: driver.quit() inside the loop body
ScrapeOk_QuitInLoop ==
    /\ pc = "loop"
    /\ \E src \in PageSources(pages[pageIdx]) :
          LET r == scrape_table(src, pages[pageIdx].table_id)
          IN  /\ r.ok
              /\ dataframes' = (pages[pageIdx].table_id :> convert_columns_to_numeric(r.df))
                                  @@ dataframes
              /\ log' = log \o << GetEvent(FindTable(src, pages[pageIdx].table_id) # None),
                                  [op |-> "store", table_id |-> pages[pageIdx].table_id] >>
    /\ stdout' = Append(stdout, Progress(pages[pageIdx]))
    /\ pageIdx' = pageIdx + 1
    /\ pc' = IF pageIdx = Len(pages) THEN "quit" ELSE "loop"
    /\ driver' = "closed"
    /\ UNCHANGED <<err, GW, records, qi, arg, ret>>

\* one iteration of the scrape loop: print, scrape_table,
\* convert_columns_to_numeric, dataframes[table_id] = df
ScrapeOk ==
    /\ pc = "loop"
    /\ \E src \in PageSources(pages[pageIdx]) :
          LET r == scrape_table(src, pages[pageIdx].table_id)
          IN  /\ r.ok
              /\ dataframes' = (pages[pageIdx].table_id :> convert_columns_to_numeric(r.df))
                                  @@ dataframes
              /\ log' = log \o << GetEvent(FindTable(src, pages[pageIdx].table_id) # None),
                                  [op |-> "store", table_id |-> pages[pageIdx].table_id] >>
    /\ stdout' = Append(stdout, Progress(pages[pageIdx]))
    /\ pageIdx' = pageIdx + 1
    /\ pc' = IF pageIdx = Len(pages) THEN "quit" ELSE "loop"
    /\ UNCHANGED <<driver, err, GW, records, qi, arg, ret>>

\* driver.quit(), after the loop
Quit ==
    /\ pc = "quit"
    /\ driver' = "closed"
    /\ log' = Append(log, [op |-> "quit"])
    /\ pc' = "gw"
    /\ UNCHANGED <<pageIdx, dataframes, err, GW, records, qi, stdout, arg, ret>>

\* GW = max(standard_stats['games'])
ComputeGW ==
    /\ pc = "gw"
    /\ LET r == CurrentGW(dataframes["stats_standard"])
       IN  IF r.ok
           THEN /\ GW' = r.v
                /\ pc' = "query"
                /\ err' = err
           ELSE /\ Raise(r.exc)
                /\ GW' = GW
    /\ UNCHANGED <<driver, pageIdx, dataframes, records, qi, stdout, log, arg, ret>>

QueryResult == RecordQuery(dataframes[Queries[qi].table], Queries[qi].pred, Queries[qi].rank)

\* record qi is computed
QueryOk ==
    /\ pc = "query"
    /\ QueryResult.ok
    /\ records' = Append(records, QueryResult)
    /\ log' = Append(log, [op |-> "query", q |-> qi])
    /\ qi' = qi + 1
    /\ pc' = IF qi = Len(Queries) THEN "print" ELSE "query"
    /\ UNCHANGED <<driver, pageIdx, dataframes, err, GW, stdout, arg, ret>>

\* a faulty variant: the records computed so far are printed before the error ends the run
QueryFails_PrintsPartial ==
    /\ pc = "query"
    /\ ~QueryResult.ok
    /\ log' = Append(log, [op |-> "query", q |-> qi])
    /\ stdout' = Append(stdout,
                   [kind  |-> "report",
                    gw    |-> GW,
                    lines |-> [k \in 1..Len(records) |->
                                 [names |-> <<>>, value |-> records[k].value]]])
    /\ Raise(QueryResult.exc)
    /\ UNCHANGED <<driver, pageIdx, dataframes, GW, records, qi, arg, ret>>

\* record qi raises
QueryFails ==
    /\ pc = "query"
    /\ ~QueryResult.ok
    /\ log' = Append(log, [op |-> "query", q |-> qi])
    /\ Raise(QueryResult.exc)
    /\ UNCHANGED <<driver, pageIdx, dataframes, GW, records, qi, stdout, arg, ret>>

\* ', '.join(players): the surnames in Series order
Joined(players) == [k \in 1..Len(players) |-> players[k].name]

\* the final print: the GW line and one line per record
PrintReport ==
    /\ pc = "print"
    /\ stdout' = Append(stdout,
                   [kind  |-> "report",
                    gw    |-> GW,
                    lines |-> [k \in 1..Len(ReportOrder) |->
                                 [names |-> Joined(records[ReportOrder[k]].players),
                                  value |-> records[ReportOrder[k]].value]]])
    /\ pc' = "done"
    /\ UNCHANGED <<driver, pageIdx, dataframes, err, GW, records, qi, log, arg, ret>>

Next ==
    \/ ScrapeFetchFails
    \/ ScrapeTableFails
    \/ ScrapeOk
    \/ Quit
    \/ ComputeGW
    \/ QueryOk
    \/ QueryFails
    \/ PrintReport

Spec == Init /\ [][Next]_vars

\* ================================================================== claims

\* ---- helpers of the claims

\* s reads as a number: digits with at most one decimal point
IsNumberText(s) ==
    /\ \A k \in 1..Len(s) : s[k] \in Digits \cup {"."}
    /\ Cardinality({ k \in 1..Len(s) : s[k] = "." }) <= 1
    /\ \E k \in 1..Len(s) : s[k] \in Digits

\* the number v is the one the text s (a number text) writes
WritesNumber(s, v) ==
    LET ds   == SelectSeq(s, LAMBDA ch : ch # ".")
        dots == { k \in 1..Len(s) : s[k] = "." }
        frac == IF dots = {} THEN 0 ELSE Len(s) - (CHOOSE k \in dots : TRUE)
    IN  /\ v.t = "num"
        /\ v.n * Pow10(frac) = DigitsVal(ds) * Pow10(v.e)

\* w is the last whitespace-separated word of the text s
IsLastWord(w, s) ==
    LET t == Strip(s)
    IN  /\ w # <<>>
        /\ \A k \in 1..Len(w) : w[k] # " "
        /\ Len(w) <= Len(t)
        /\ SubSeq(t, Len(t) - Len(w) + 1, Len(t)) = w
        /\ (Len(w) < Len(t) => t[Len(t) - Len(w)] = " ")

ReportPrinted == \E k \in 1..Len(stdout) : stdout[k].kind = "report"

Terminated == pc \in {"done", "failed"}

\* the positions of the fetches (driver.get calls) in the log
IsFetch(e) == e.op \in {"get", "get_failed"}

\* the table identifiers in the order the pages are listed
ListedOrder ==
    << "stats_standard", "stats_shooting", "stats_passing", "stats_defense",
       "stats_playing_time", "stats_misc" >>

\* query q has been evaluated
Attempted(q) == \E k \in 1..Len(log) : log[k].op = "query" /\ log[k].q = q

\* no row of query q's table has the predicate column equal to 0
EmptyFilter(q) ==
    LET df == dataframes[Queries[q].table]
        c  == CHOOSE k \in 1..Len(df.columns) : df.columns[k] = Queries[q].pred
    IN  \A r \in 1..Len(df.data) : df.data[r][c] # Num(0, 0)

RankIsNumeric(q) ==
    LET df == dataframes[Queries[q].table]
    IN  \E k \in 1..Len(df.columns) :
           df.columns[k] = Queries[q].rank /\ df.dtypes[k] # "object"

\* ---- C1 (SpecRecord)
\* C1: when the rows with the predicate column equal to 0 are not empty, the
\* record value is the maximum of the rank column over exactly those rows, and
\* the reported rows are all and only the rows that satisfy the predicate and
\* have that rank value; a row outside the predicate is never reported.  The
\* query produces this result whenever the rank column is numeric and the tied
\* rows carry a name.
C1_RecordIsTieInclusiveMax ==
    pc = "returned" =>
        LET d    == arg.data
            F    == { r \in 1..Len(d) : d[r][2] = Num(0, 0) }
            tops == { r \in F : \A q \in F : ~NumLess(d[r][3], d[q][3]) }
        IN  /\ ret.ok =>
                /\ F # {}
                /\ \E r \in F : d[r][3] = ret.value
                /\ \A r \in F : ~NumLess(ret.value, d[r][3])
                /\ { ret.players[k].label : k \in 1..Len(ret.players) }
                      = { r \in F : d[r][3] = ret.value }
                /\ Len(ret.players) = Cardinality({ r \in F : d[r][3] = ret.value })
            /\ ( /\ F # {}
                 /\ arg.dtypes[3] # "object"
                 /\ \A r \in tops : d[r][1].t = "str" /\ Strip(d[r][1].s) # <<>> )
               => ret.ok

\* two tied goalless rows are reported while a row with a goal and at least
\* as many shots is left out
C1_Witness ==
    /\ pc = "returned"
    /\ ret.ok
    /\ Len(ret.players) = 2
    /\ \E r \in 1..Len(arg.data) :
          /\ arg.data[r][2] # Num(0, 0)
          /\ ~NumLess(arg.data[r][3], ret.value)

\* ---- C8 (SpecRecord)
\* C8 as stated: the surnames of a record are deduplicated (no surname
\* appears twice) and keep the order of their rows.
C8_SurnamesDeduplicated ==
    (pc = "returned" /\ ret.ok) =>
        /\ \A j, k \in 1..Len(ret.players) :
              j # k => ret.players[j].name # ret.players[k].name
        /\ \A j, k \in 1..Len(ret.players) :
              j < k => ret.players[j].label < ret.players[k].label

\* C8 as amended: the surnames of a record are one per tied row, in the order
\* of the rows in the table, each the last whitespace-separated word of that
\* row's player name; a surname shared by several tied rows appears once per
\* such row.
C8_SurnamePerTiedRow ==
    (pc = "returned" /\ ret.ok) =>
        LET d    == arg.data
            tied == { r \in 1..Len(d) : d[r][2] = Num(0, 0) /\ d[r][3] = ret.value }
        IN  /\ Len(ret.players) = Cardinality(tied)
            /\ \A k \in 1..Len(ret.players) :
                  /\ ret.players[k].label \in tied
                  /\ IsLastWord(ret.players[k].name, d[ret.players[k].label][1].s)
            /\ \A j, k \in 1..Len(ret.players) :
                  j < k => ret.players[j].label < ret.players[k].label

\* two tied players with one surname: the surname is reported twice
C8_Witness ==
    /\ pc = "returned"
    /\ ret.ok
    /\ Len(ret.players) >= 2
    /\ ret.players[1].name = ret.players[2].name
    /\ arg.data[ret.players[1].label][1] # arg.data[ret.players[2].label][1]

\* ---- C5 (SpecScrape)
\* C5: the extracted table holds no null; its columns are the data-stat
\* identifiers of the scope="col" headers after the first; a body row is kept
\* if and only if it has a td for every one of these, and the kept rows hold
\* the trimmed texts of their cells, in order.
C5_NoNullRowsKeptIffComplete ==
    (pc = "returned" /\ ret.ok) =>
        LET table == arg.tables[ScrapeTableId]
            sc    == SelectSeq(table.thead, LAMBDA th : th.scope = "col")
            want  == [k \in 1..(IF Len(sc) = 0 THEN 0 ELSE Len(sc) - 1) |-> sc[k + 1].stat]
            kept  == { k \in 1..Len(table.tbody) :
                         \A c \in 1..Len(want) : want[c] \in DOMAIN table.tbody[k] }
        IN  /\ ret.df.columns = want
            /\ \A r \in 1..Len(ret.df.data) : \A c \in 1..Len(want) :
                  ret.df.data[r][c].t = "str"
            /\ Len(ret.df.data) = Cardinality(kept)
            /\ \A k \in kept : \A c \in 1..Len(want) :
                  ret.df.data[Cardinality({ j \in kept : j <= k })][c]
                     = Str(Strip(table.tbody[k][want[c]]))

\* one row is kept although it has no cell for the rank header and one of its
\* cells is blank; another row, with cells, is discarded
C5_Witness ==
    /\ pc = "returned"
    /\ ret.ok
    /\ Len(ret.df.columns) = 2
    /\ Len(arg.tables[ScrapeTableId].tbody) = 2
    /\ Len(ret.df.data) = 1
    /\ \E c \in 1..2 : ret.df.data[1][c] = Str(<<>>)
    /\ \E k \in 1..2 :
          LET row == arg.tables[ScrapeTableId].tbody[k]
          IN  /\ \A c \in 1..2 : ret.df.columns[c] \in DOMAIN row
              /\ "ranker" \notin DOMAIN row
    /\ \E k \in 1..2 :
          LET row == arg.tables[ScrapeTableId].tbody[k]
          IN  /\ \E c \in 1..2 : ret.df.columns[c] \notin DOMAIN row
              /\ DOMAIN row # {}

\* ---- C6 (SpecNorm)
\* C6 as stated: a column becomes numeric if and only if every value in it
\* parses as a number; otherwise every value keeps its text.
C6_NumericIffAllParse ==
    pc = "once" =>
        \A c \in 1..Len(arg.columns) :
            LET all == \A r \in 1..Len(arg.data) : IsNumberText(arg.data[r][c].s)
            IN  /\ (ret.dtypes[c] # "object") <=> all
                /\ ~all => \A r \in 1..Len(arg.data) : ret.data[r][c] = arg.data[r][c]

\* C6 as amended: a column becomes numeric if and only if every value in it
\* is empty or parses as a number (an empty value becomes NaN); if any
\* non-empty value fails to parse, every value of the column keeps its
\* original text; each column is decided from its own values alone, and
\* nothing else of the table changes.
C6_NumericIffAllParseOrEmpty ==
    pc = "once" =>
        /\ ret.columns = arg.columns
        /\ Len(ret.data) = Len(arg.data)
        /\ \A c \in 1..Len(arg.columns) :
            LET conv == \A r \in 1..Len(arg.data) :
                           arg.data[r][c].s = <<>> \/ IsNumberText(arg.data[r][c].s)
            IN  /\ (ret.dtypes[c] # "object") <=> conv
                /\ conv => \A r \in 1..Len(arg.data) :
                              IF arg.data[r][c].s = <<>>
                              THEN ret.data[r][c] = NaN
                              ELSE WritesNumber(arg.data[r][c].s, ret.data[r][c])
                /\ ~conv => \A r \in 1..Len(arg.data) : ret.data[r][c] = arg.data[r][c]

\* one column is converted, an empty value in it included, while the other
\* keeps its text although one of its values is a number text
C6_Witness ==
    /\ pc = "once"
    /\ ret.dtypes[1] # "object"
    /\ ret.dtypes[2] = "object"
    /\ \E r \in 1..Len(arg.data) : arg.data[r][1].s = <<>>
    /\ \E r \in 1..Len(arg.data) : IsNumberText(arg.data[r][1].s)
    /\ \E r \in 1..Len(arg.data) :
          IsNumberText(arg.data[r][2].s) /\ ret.data[r][2] = arg.data[r][2]

\* ---- C7 (SpecNorm)
\* C7: converting a converted table changes nothing: the same values and the
\* same numeric-or-text kind of every column.
C7_NormalizeIdempotent ==
    pc = "twice" => ret = arg

\* converted twice: a table with a numeric column and a text column
C7_Witness ==
    /\ pc = "twice"
    /\ Len(ret.data) >= 1
    /\ ret.dtypes[1] \in {"int64", "float64"}
    /\ ret.dtypes[2] = "object"

\* ---- C2 (Spec)
\* C2: a record query whose filtered set is empty fails: once it has been
\* evaluated the run has ended on its error (the IndexError of .values[0]
\* when the rank column is numeric), no record value was produced for it and
\* no report is printed.
C2_EmptyFilterFails ==
    \A q \in 1..Len(Queries) :
        (Attempted(q) /\ EmptyFilter(q)) =>
            /\ pc = "failed"
            /\ err # "none"
            /\ RankIsNumeric(q) => err = "IndexError"
            /\ Len(records) = q - 1
            /\ ~ReportPrinted

\* a later query (not the first) found no qualifying row in a numeric table
C2_Witness ==
    \E q \in 2..Len(Queries) :
        /\ Attempted(q)
        /\ EmptyFilter(q)
        /\ RankIsNumeric(q)
        /\ err = "IndexError"

\* ---- C3 (Spec)
\* C3: every execution that has terminated has released the browser session.
C3_SessionReleasedAtExit ==
    Terminated => driver = "closed"

\* ---- C4 (Spec)
\* C4: the report is all-or-nothing: after a failed fetch, a missing table or
\* an empty record query the run has ended on the error with no report; a
\* report is printed once, whole, and only when all six tables were stored
\* and all five records computed.
C4_ReportAllOrNothing ==
    /\ err # "none" => (pc = "failed" /\ ~ReportPrinted)
    /\ (\E k \in 1..Len(log) :
           \/ log[k].op = "get_failed"
           \/ log[k].op = "get" /\ ~log[k].found
           \/ log[k].op = "query" /\ EmptyFilter(log[k].q))
       => (pc = "failed" /\ err # "none" /\ ~ReportPrinted)
    /\ ReportPrinted =>
          /\ pc = "done"
          /\ err = "none"
          /\ \A k \in 1..Len(ListedOrder) : ListedOrder[k] \in DOMAIN dataframes
          /\ Len(records) = Len(Queries)
          /\ Cardinality({ k \in 1..Len(stdout) : stdout[k].kind = "report" }) = 1
          /\ \A k \in 1..Len(stdout) :
                stdout[k].kind = "report" => Len(stdout[k].lines) = Len(Queries)

\* a complete run: six tables, five records, the report printed
C4_Witness ==
    /\ pc = "done"
    /\ ReportPrinted
    /\ Len(records) = 5

\* ---- C9 (Spec)
\* C9: when the fetched page holds no table with the requested identifier,
\* the run ends there on the error of the missing table (AttributeError on
\* None): no table is stored for that page, no later page is fetched and no
\* report is printed.
C9_MissingTableIsFatal ==
    \A k \in 1..Len(log) :
        (log[k].op = "get" /\ ~log[k].found) =>
            /\ k = Len(log)
            /\ pc = "failed"
            /\ err = "AttributeError"
            /\ ListedOrder[log[k].page] \notin DOMAIN dataframes
            /\ ~ReportPrinted

\* the table is missing from a later page, after earlier tables were stored
C9_Witness ==
    \E k \in 1..Len(log) :
        /\ log[k].op = "get"
        /\ ~log[k].found
        /\ log[k].page >= 2
        /\ DOMAIN dataframes # {}

\* ---- C10 (Spec)
\* C10: the pages are fetched one at a time in their listed order, each
\* page's converted table is stored under its identifier before the next
\* fetch, every fetch happens while the session is open, and the session is
\* released after the sixth table is stored and before any record query; no
\* fetch follows the release.
C10_SequentialFetchThenQuit ==
    /\ \A k \in 1..Len(log) :
          IsFetch(log[k]) =>
             /\ log[k].page = 1 + Cardinality({ j \in 1..(k - 1) : IsFetch(log[j]) })
             /\ log[k].session = "open"
             /\ (\E j \in (k + 1)..Len(log) : IsFetch(log[j])) =>
                   (log[k + 1].op = "store"
                    /\ log[k + 1].table_id = ListedOrder[log[k].page])
    /\ \A k \in 1..Len(log) :
          log[k].op = "store" =>
             /\ k > 1 /\ log[k - 1].op = "get"
             /\ log[k].table_id = ListedOrder[log[k - 1].page]
             /\ log[k].table_id \in DOMAIN dataframes
             /\ convert_columns_to_numeric(dataframes[log[k].table_id])
                   = dataframes[log[k].table_id]
    /\ \A k \in 1..Len(log) :
          log[k].op = "quit" =>
             /\ Cardinality({ j \in 1..(k - 1) : log[j].op = "store" }) = Len(ListedOrder)
             /\ \A j \in 1..(k - 1) : log[j].op # "query"
             /\ \A j \in (k + 1)..Len(log) : ~IsFetch(log[j])
    /\ \A k \in 1..Len(log) :
          log[k].op = "query" => \E j \in 1..(k - 1) : log[j].op = "quit"
    /\ (\E k \in 1..Len(log) : log[k].op = "quit") <=> driver = "closed"

\* a complete run: six fetches, the release, then the five queries
C10_Witness ==
    /\ pc = "done"
    /\ Cardinality({ k \in 1..Len(log) : IsFetch(log[k]) }) = 6
    /\ Cardinality({ k \in 1..Len(log) : log[k].op = "query" }) = 5
    /\ driver = "closed"

====
